---- MODULE Spec2Model ----
(***************************************************************************)
(* Model of the online-compiler backend: the batch executor executeCode    *)
(* (Docker-backed docker-service.js and the two mock-docker-service.js     *)
(* versions) and the terminal session service (terminal-service.js and     *)
(* mock-terminal-service.js).                                              *)
(*                                                                         *)
(* Node.js runs one continuation at a time, so every action below is the   *)
(* code between two awaits (or one whole synchronous event handler).       *)
(* The Docker daemon, the file system and the user's program are the       *)
(* environment: their outcomes are nondeterministic choices.               *)
(***************************************************************************)
EXTENDS Integers, Sequences, FiniteSets, TLC

\* ------------------------------------------------------------------------
\* Bounds of the model
\* ------------------------------------------------------------------------
NumExec == 2
Execs == 1..NumExec

\* calls of one run that name a property every object inherits
MaxInherited == 1

\* terminal sessions, sockets, and over all sessions together: the inputs
\* accepted, the close operations pending (stops or eviction timers)
NumSessions == 1
NumSockets == 1
MaxInputs == 2
MaxCloses == 1
\* resize calls in flight, over all sessions together
MaxResizes == 1
Sessions == 1..NumSessions
Sockets == 1..NumSockets

\* ------------------------------------------------------------------------
\* Inputs
\* ------------------------------------------------------------------------
\* the (language, input is non-empty) pairs executeCode is called with: a
\* language with a profile, written in mixed case, one without, one
\* without that names a property every JavaScript object inherits, and
\* further languages with a profile
Requests == {<<"Java", TRUE>>, <<"unknownlang", FALSE>>,
             <<"constructor", FALSE>>, <<"java", FALSE>>,
             <<"python", FALSE>>, <<"html", FALSE>>}

\* the languages of the runs that follow executeCode to its end
BatchLanguages == {"Java", "unknownlang", "constructor"}

\* exit codes a user program may end with
ExitCodes == {0, 1}

\* what a user program may have printed when it ends: some output of its
\* own, or the very text of a Docker daemon error
ProgramOutputs == {"logs", "docker error"}

\* the user programs: <<exit code, printed output>>; the program that
\* succeeds prints its own output
Programs == {p \in ExitCodes \X ProgramOutputs : p[1] = 0 => p[2] = "logs"}

\* String.prototype.toLowerCase over the identifiers the model uses: these
\* are the ones with upper-case letters
ToLower(s) ==
  CASE s \in {"Java", "JAVA"}     -> "java"
    [] s \in {"Python", "PYTHON"} -> "python"
    [] OTHER                      -> s

\* the lower-case names of the properties an object literal inherits from
\* Object.prototype: table[name] finds them although the table has no
\* such key
ObjectPrototypeKeys == {"constructor", "__proto__"}

\* ------------------------------------------------------------------------
\* Language tables
\* ------------------------------------------------------------------------
NoConfig == [image |-> "none", filename |-> "none", inputCommand |-> FALSE]

\* an inherited property taken for a profile: a truthy value whose image,
\* filename, extension and commands are all undefined
InheritedConfig ==
  [image |-> "undefined", filename |-> "undefined", inputCommand |-> FALSE]

\* the languageConfigs table of docker-service.js
languageConfigs ==
  [javascript |-> [image |-> "node:16-alpine", filename |-> "program.js",
                   inputCommand |-> TRUE],
   python     |-> [image |-> "python:3.9-alpine", filename |-> "program.py",
                   inputCommand |-> TRUE],
   java       |-> [image |-> "openjdk:11-jdk-slim", filename |-> "Main.java",
                   inputCommand |-> TRUE],
   cpp        |-> [image |-> "gcc:latest", filename |-> "program.cpp",
                   inputCommand |-> TRUE],
   c          |-> [image |-> "gcc:latest", filename |-> "program.c",
                   inputCommand |-> TRUE],
   html       |-> [image |-> "nginx:alpine", filename |-> "index.html",
                   inputCommand |-> FALSE]]

\* the languageConfigs table of the second docker-service.js: no html, the
\* file name is program.<extension>, no inputCommand
languageConfigs2 ==
  [javascript |-> [image |-> "node:16-alpine", filename |-> "program.js",
                   inputCommand |-> FALSE],
   python     |-> [image |-> "python:3.9-alpine", filename |-> "program.py",
                   inputCommand |-> FALSE],
   java       |-> [image |-> "openjdk:11-jdk-slim",
                   filename |-> "program.java", inputCommand |-> FALSE],
   cpp        |-> [image |-> "gcc:latest", filename |-> "program.cpp",
                   inputCommand |-> FALSE],
   c          |-> [image |-> "gcc:latest", filename |-> "program.c",
                   inputCommand |-> FALSE]]

\* the languageConfigs table of mock-docker-service.js: no image
mockLanguageConfigs ==
  [l \in DOMAIN languageConfigs |->
     [image |-> "none", filename |-> languageConfigs[l].filename,
      inputCommand |-> FALSE]]

\* the table the imported executeCode consults
ConfigTable(svc) ==
  CASE svc = "docker"  -> languageConfigs
    [] svc = "docker2" -> languageConfigs2
    [] OTHER           -> mockLanguageConfigs

\* languageConfigs[language.toLowerCase()]; NoConfig stands for undefined
LookupConfig(svc, language) ==
  IF ToLower(language) \in DOMAIN ConfigTable(svc)
  THEN ConfigTable(svc)[ToLower(language)]
  ELSE IF ToLower(language) \in ObjectPrototypeKeys
  THEN InheritedConfig
  ELSE NoConfig

\* the image names executeCode hands to the daemon
Images ==
  {languageConfigs[l].image : l \in DOMAIN languageConfigs}
    \cup {InheritedConfig.image}

\* ------------------------------------------------------------------------
\* Error messages, results, container states
\* ------------------------------------------------------------------------
UnsupportedMsg == "Unsupported language"
MockUnsupportedMsg == "Mock execution error: Unsupported language"
PullFailedMsg == "pull failed"
FsErrorMsg == "fs error"
MockFsErrorMsg == "Mock execution error: fs error"
DockerErrorMsg == "docker error"
NoContainerMsg == "no such container"

\* a result record {executionId, status, output, exitCode}; no executeCode
\* sets an errorKind field, "none" stands for the absent field
NoResult == [kind |-> "none", status |-> "none", output |-> "none",
             exitCode |-> -1, errorKind |-> "none"]
Thrown(msg) == [kind |-> "thrown", status |-> "none", output |-> msg,
                exitCode |-> -1, errorKind |-> "none"]
Returned(st, out, code) == [kind |-> "returned", status |-> st,
                            output |-> out, exitCode |-> code,
                            errorKind |-> "none"]

\* a container is none, created, running, looping (its program never ends),
\* exited with a code, or removed after having exited; out is the output of
\* the program once container.logs() has read it
Cont(st) == [st |-> st, code |-> -1, out |-> "none"]
Exited(c) == [st |-> "exited", code |-> c, out |-> "none"]
Removed(c) == [st |-> "removed", code |-> c, out |-> "none"]
ExitedStates == {Exited(c) : c \in ExitCodes}
RemovedStates == {Removed(c) : c \in ExitCodes}
ExitCodeOf(c) == c.code

\* the calls one executeCode has made so far to fs.mkdir,
\* docker.createContainer, container.start and fs.rm, and whether its
\* fs.mkdir succeeded (the calls of pullImage are counted per image)
NoSteps == [mkdir |-> 0, create |-> 0, start |-> 0, rm |-> 0, made |-> FALSE]

VARIABLES
  service,     \* the executeCode index.js imports: docker, docker2 (the two
               \* docker-service.js), mock1, mock (the two mock services)
  pc,          \* position of each executeCode call
  lang,        \* its language argument
  hasInput,    \* whether its input argument is non-empty
  tempDir,     \* whether temp/<executionId> exists
  images,      \* images present on the Docker host
  pulls,       \* number of docker.pull calls started, per image
  container,   \* state of the container created by each call
  error,       \* message of the error caught by the outer try
  result,      \* what the call returned or threw
  steps        \* the resource calls each executeCode has made

batchVars == <<service, pc, lang, hasInput, tempDir, images, pulls,
               container, error, result, steps>>

VARIABLES
  termService, \* the setupTerminal index.js imports: docker or mock
  connected,   \* whether each socket is still connected
  tpc,         \* position of the terminal_create handler of each session id
  owner,       \* the socket whose terminal_create made the session
  tlang,       \* the language of the terminal_create request
  tcontainer,  \* the container of the session (Docker-backed service)
  sessions,    \* the activeSessions map
  closing,     \* closeTerminalSession calls awaiting container.stop()
  closeEmits,  \* mock: close handlers suspended at their
               \* `await closeTerminalSession(sessionId)`
  outTimers,   \* pending 300 ms timers of the mock input handler, each
               \* with the input it answers, in the order they were set
  evictTimers, \* pending 1000 ms timers of the mock closeTerminalSession
  stdin,       \* the inputs written to the container's stream, in order
  event,       \* the client event handled by the last step
  emitted,     \* the events the last step emitted to the client, in order
  resizing,    \* container.resize() calls in flight, per session
  lastOutput,  \* mock: the arrival of the input whose output was emitted
               \* last, arrival 0 before the first
  received     \* the input events each session has acted on so far

termVars == <<termService, connected, tpc, owner, tlang, tcontainer,
              sessions, closing, closeEmits, outTimers, evictTimers, stdin,
              event, emitted, resizing, lastOutput, received>>

VARIABLES
  response,    \* the HTTP status POST /api/execute answered with, 0 before
  room,        \* whether a client socket has joined the room executionId
  delivered    \* whether execution_result reached a socket of the room

apiVars == <<response, room, delivered>>

VARIABLES
  source,      \* the code argument of the requests of the run, as its
               \* whitespace-separated tokens
  sourceLang,  \* the language argument that goes with it
  filename     \* the name of the file the code was last written to

fileVars == <<source, sourceLang, filename>>

VARIABLES
  usersColl,    \* the users collection: per email, the provider ids of
                \* its documents in insertion order
  snippetsColl, \* the code-snippets collection: the number of documents
                \* per (userId, language)
  reg,          \* the registerUser, saveUser and oauthLogin calls:
                \* arguments, position, outcome
  snip          \* the saveCodeSnippet and deleteAllUserSnippets calls:
                \* arguments, position, outcome

dbVars == <<usersColl, snippetsColl, reg, snip>>

vars == <<batchVars, termVars, apiVars, fileVars, dbVars>>

Services == {"docker", "docker2", "mock1", "mock"}
IsDocker == service \in {"docker", "docker2"}

BatchInit(svcs) ==
  /\ service \in svcs
  /\ pc = [e \in Execs |-> "idle"]
  /\ lang = [e \in Execs |-> "none"]
  /\ hasInput = [e \in Execs |-> FALSE]
  /\ tempDir = [e \in Execs |-> FALSE]
  /\ images = {}
  /\ pulls = [i \in Images |-> 0]
  /\ container = [e \in Execs |-> Cont("none")]
  /\ error = [e \in Execs |-> "none"]
  /\ result = [e \in Execs |-> NoResult]
  /\ steps = [e \in Execs |-> NoSteps]

Config(e) == LookupConfig(service, lang[e])

\* the languages whose command compiles next to the source (javac, g++,
\* gcc) before it runs the program
CompiledLanguages == {"java", "cpp", "c"}

\* the HostConfig executeCode passes to docker.createContainer: the first
\* docker-service.js sets ReadonlyRootfs: false, the second sets true,
\* whatever the language
HostConfig(svc, language) ==
  [NetworkMode |-> "none", ReadonlyRootfs |-> (svc = "docker2"),
   AutoRemove |-> TRUE]

\* an error handler that starts the execution over instead of ending it
ToRetry(e, msg) ==
  /\ pc' = [pc EXCEPT ![e] = "mkdir"]
  /\ error' = [error EXCEPT ![e] = msg]

\* the catch block of executeCode is entered with this error
ToCatch(e, msg) ==
  /\ pc' = [pc EXCEPT ![e] = "catch"]
  /\ error' = [error EXCEPT ![e] = msg]

\* executeCode(code, language, input) up to its first await; the calls of
\* one run carry the same request (source, sourceLang), and at most
\* MaxInherited of them name an inherited property
Call(e) ==
  /\ pc[e] = "idle"
  /\ \E <<l, i>> \in Requests :
       /\ l = sourceLang
       /\ LookupConfig(service, l) = InheritedConfig =>
            Cardinality({d \in Execs : pc[d] # "idle"}) < MaxInherited
       /\ lang' = [lang EXCEPT ![e] = l]
       /\ hasInput' = [hasInput EXCEPT ![e] = i]
       /\ CASE IsDocker ->
                 \* the lookup precedes the try: the error is thrown
                 IF LookupConfig(service, l) = NoConfig
                 THEN /\ pc' = [pc EXCEPT ![e] = "done"]
                      /\ result' = [result EXCEPT ![e] = Thrown(UnsupportedMsg)]
                 ELSE /\ pc' = [pc EXCEPT ![e] = "mkdir"]
                      /\ UNCHANGED result
            [] service = "mock" ->
                 \* the lookup is inside the try: the catch returns a result
                 IF LookupConfig(service, l) = NoConfig
                 THEN /\ pc' = [pc EXCEPT ![e] = "done"]
                      /\ result' = [result EXCEPT ![e] =
                                      Returned("error", MockUnsupportedMsg, 1)]
                 ELSE /\ pc' = [pc EXCEPT ![e] = "mkdir"]
                      /\ UNCHANGED result
            [] service = "mock1" ->
                 \* no lookup at all
                 /\ pc' = [pc EXCEPT ![e] = "delay"]
                 /\ UNCHANGED result
  /\ UNCHANGED <<service, tempDir, images, pulls, container, error, steps>>
  /\ UNCHANGED <<termVars, apiVars, fileVars, dbVars>>

\* path.join(tempDir, undefined) throws a TypeError
MockPathErrorMsg == "Mock execution error: path argument undefined"

\* a failed file-system call: the Docker-backed executeCode enters its
\* catch block, the mock's catch returns the error result at once and
\* removes nothing
FsFailed(e) ==
  IF IsDocker
  THEN /\ ToCatch(e, FsErrorMsg)
       /\ UNCHANGED result
  ELSE /\ pc' = [pc EXCEPT ![e] = "done"]
       /\ result' = [result EXCEPT ![e] =
                       Returned("error", MockFsErrorMsg, 1)]
       /\ UNCHANGED error

\* the first await after the files are written: the image inspection
\* (Docker-backed) or the simulated delay (mock)
AfterFiles == IF IsDocker THEN "inspect" ELSE "delay"

\* the text \w+ matches at the start of a token, "" when it matches none
WordPrefix(t) == IF t = "Foo{" THEN "Foo" ELSE IF t = "{" THEN "" ELSE t

\* the services whose executeCode writes the code to a file
FileServices == {"docker", "docker2", "mock"}

\* /public\s+class\s+(\w+)/ matches at token i
MatchesAt(src, i) ==
  /\ i + 2 <= Len(src)
  /\ src[i] = "public"
  /\ src[i + 1] = "class"
  /\ WordPrefix(src[i + 2]) # ""

\* code.match(/public\s+class\s+(\w+)/): the regular expression is tried
\* at each position from the left; the result is classNameMatch[1], or ""
\* for null
RECURSIVE ClassNameFrom(_, _)
ClassNameFrom(src, i) ==
  IF i > Len(src) THEN ""
  ELSE IF MatchesAt(src, i) THEN WordPrefix(src[i + 2])
  ELSE ClassNameFrom(src, i + 1)

\* a naming that ignores the class of a java source
FileNameStatic(svc, language, src) ==
  LookupConfig(svc, language).filename

\* the filename executeCode computes; an inherited profile has neither
\* filename nor extension, which the Docker-backed services format as
\* program.undefined
FileName(svc, language, src) ==
  IF ToLower(language) = "java"
  THEN (IF ClassNameFrom(src, 1) # "" THEN ClassNameFrom(src, 1) ELSE "Main")
         \o ".java"
  ELSE IF LookupConfig(svc, language) = InheritedConfig
  THEN "program.undefined"
  ELSE LookupConfig(svc, language).filename

\* `await fs.mkdir(tempDir, {recursive: true})` settles; the continuation
\* computes the file name and calls fs.writeFile(path.join(tempDir,
\* filename), code). In the mock an inherited profile has no filename and
\* path.join throws before any file is named
AcquireWorkspace(e) ==
  /\ pc[e] = "mkdir"
  /\ \E ok \in BOOLEAN :
       /\ tempDir' = [tempDir EXCEPT ![e] = ok]
       /\ steps' = [steps EXCEPT ![e].mkdir = @ + 1, ![e].made = ok]
       /\ IF ~ok
          THEN /\ FsFailed(e)
               /\ UNCHANGED filename
          ELSE IF ~IsDocker /\ Config(e) = InheritedConfig
          THEN /\ pc' = [pc EXCEPT ![e] = "done"]
               /\ result' = [result EXCEPT ![e] =
                               Returned("error", MockPathErrorMsg, 1)]
               /\ UNCHANGED <<error, filename>>
          ELSE /\ pc' = [pc EXCEPT ![e] = "write"]
               /\ filename' = FileName(service, lang[e], source)
               /\ UNCHANGED <<error, result>>
  /\ UNCHANGED <<service, lang, hasInput, images, pulls, container>>
  /\ UNCHANGED <<source, sourceLang>>
  /\ UNCHANGED <<termVars, apiVars, dbVars>>

\* `await fs.writeFile(path.join(tempDir, filename), code)` settles; with
\* input the continuation starts fs.writeFile of input.txt
WriteCodeFile(e) ==
  /\ pc[e] = "write"
  /\ \E ok \in BOOLEAN :
       IF ok
       THEN /\ pc' = [pc EXCEPT ![e] =
                        IF hasInput[e] THEN "writeInput" ELSE AfterFiles]
            /\ UNCHANGED <<error, result>>
       ELSE FsFailed(e)
  /\ UNCHANGED <<service, lang, hasInput, tempDir, images, pulls, container,
                 steps>>
  /\ UNCHANGED <<termVars, apiVars, fileVars, dbVars>>

\* `await fs.writeFile(path.join(tempDir, 'input.txt'), input)` settles
WriteInputFile(e) ==
  /\ pc[e] = "writeInput"
  /\ \E ok \in BOOLEAN :
       IF ok
       THEN /\ pc' = [pc EXCEPT ![e] = AfterFiles]
            /\ UNCHANGED <<error, result>>
       ELSE FsFailed(e)
  /\ UNCHANGED <<service, lang, hasInput, tempDir, images, pulls, container,
                 steps>>
  /\ UNCHANGED <<termVars, apiVars, fileVars, dbVars>>

\* docker.getImage(image).inspect(); when it throws, pullImage(image) is
\* called in the same continuation and docker.pull is started
InspectImage(e) ==
  /\ pc[e] = "inspect"
  /\ IF Config(e).image \in images
     THEN /\ pc' = [pc EXCEPT ![e] = "create"]
          /\ UNCHANGED pulls
     ELSE /\ pc' = [pc EXCEPT ![e] = "pull"]
          /\ pulls' = [pulls EXCEPT ![Config(e).image] = @ + 1]
  /\ UNCHANGED <<service, lang, hasInput, tempDir, images, container, error,
                 result, steps>>
  /\ UNCHANGED <<termVars, apiVars, fileVars, dbVars>>

\* the promise of pullImage settles: followProgress reports success or error
PullDone(e) ==
  /\ pc[e] = "pull"
  /\ \E ok \in BOOLEAN :
       IF ok
       THEN /\ images' = images \cup {Config(e).image}
            /\ pc' = [pc EXCEPT ![e] = "create"]
            /\ UNCHANGED error
       ELSE /\ ToCatch(e, PullFailedMsg)
            /\ UNCHANGED images
  /\ UNCHANGED <<service, lang, hasInput, tempDir, pulls, container, result,
                 steps>>
  /\ UNCHANGED <<termVars, apiVars, fileVars, dbVars>>

\* docker.createContainer(containerConfig)
CreateContainer(e) ==
  /\ pc[e] = "create"
  /\ steps' = [steps EXCEPT ![e].create = @ + 1]
  /\ \E ok \in BOOLEAN :
       IF ok
       THEN /\ container' = [container EXCEPT ![e] = Cont("created")]
            /\ pc' = [pc EXCEPT ![e] = "start"]
            /\ UNCHANGED error
       ELSE /\ ToCatch(e, DockerErrorMsg)
            /\ UNCHANGED container
  /\ UNCHANGED <<service, lang, hasInput, tempDir, images, pulls, result>>
  /\ UNCHANGED <<termVars, apiVars, fileVars, dbVars>>

\* input is written to the attached stdin unless the profile's inputCommand
\* pipes input.txt (the second docker-service.js has no inputCommand)
NeedsAttach(e) == hasInput[e] /\ ~Config(e).inputCommand

\* container.start()
StartContainer(e) ==
  /\ pc[e] = "start"
  /\ steps' = [steps EXCEPT ![e].start = @ + 1]
  /\ \E ok \in BOOLEAN :
       IF ok
       THEN /\ container' = [container EXCEPT ![e] = Cont("running")]
            /\ pc' = [pc EXCEPT ![e] =
                        IF NeedsAttach(e) THEN "attach" ELSE "wait"]
            /\ UNCHANGED error
       ELSE /\ ToCatch(e, DockerErrorMsg)
            /\ UNCHANGED container
  /\ UNCHANGED <<service, lang, hasInput, tempDir, images, pulls, result>>
  /\ UNCHANGED <<termVars, apiVars, fileVars, dbVars>>

\* container.attach(...), stream.write(input), stream.end()
AttachStdin(e) ==
  /\ pc[e] = "attach"
  /\ \E ok \in BOOLEAN :
       IF ok
       THEN pc' = [pc EXCEPT ![e] = "wait"] /\ UNCHANGED error
       ELSE ToCatch(e, DockerErrorMsg)
  /\ UNCHANGED <<service, lang, hasInput, tempDir, images, pulls, container,
                 result, steps>>
  /\ UNCHANGED <<termVars, apiVars, fileVars, dbVars>>

\* The code never touches a container again once container.logs() has
\* resolved or its call has reached the catch block: the model follows a
\* container until then.
InFlight(e) == pc[e] \notin {"rm", "catch", "done"}

\* environment: the user's program ends with exit code c
ProgramExit(e) ==
  /\ InFlight(e)
  /\ container[e] = Cont("running")
  /\ \E c \in {p[1] : p \in Programs} :
       container' = [container EXCEPT ![e] = Exited(c)]
  /\ UNCHANGED <<service, pc, lang, hasInput, tempDir, images, pulls, error,
                 result, steps>>
  /\ UNCHANGED <<termVars, apiVars, fileVars, dbVars>>

\* environment: the user's program enters a loop it never leaves; nothing
\* tells it from a running program before container.wait() is pending
ProgramLoops(e) ==
  /\ pc[e] = "wait"
  /\ container[e] = Cont("running")
  /\ container' = [container EXCEPT ![e] = Cont("looping")]
  /\ UNCHANGED <<service, pc, lang, hasInput, tempDir, images, pulls, error,
                 result, steps>>
  /\ UNCHANGED <<termVars, apiVars, fileVars, dbVars>>

\* environment: HostConfig.AutoRemove removes the container after its exit
AutoRemove(e) ==
  /\ InFlight(e)
  /\ HostConfig(service, lang[e]).AutoRemove
  /\ container[e] \in ExitedStates
  /\ container' = [container EXCEPT ![e] = Removed(ExitCodeOf(@))]
  /\ UNCHANGED <<service, pc, lang, hasInput, tempDir, images, pulls, error,
                 result, steps>>
  /\ UNCHANGED <<termVars, apiVars, fileVars, dbVars>>

\* container.wait() resolves once the program has ended (data.StatusCode is
\* the container's exit code), or rejects when the daemon fails meanwhile
WaitContainer(e) ==
  /\ pc[e] = "wait"
  /\ \/ /\ container[e] \in ExitedStates \cup RemovedStates
        /\ pc' = [pc EXCEPT ![e] = "logs"]
        /\ UNCHANGED error
     \/ /\ container[e] = Cont("running")
        /\ ToCatch(e, DockerErrorMsg)
  /\ UNCHANGED <<service, lang, hasInput, tempDir, images, pulls, container,
                 result, steps>>
  /\ UNCHANGED <<termVars, apiVars, fileVars, dbVars>>

\* container.logs(...): rejects when the container is already removed;
\* otherwise it reads what the program, which ended with this exit code,
\* had printed
ContainerLogs(e) ==
  /\ pc[e] = "logs"
  /\ IF container[e] \in RemovedStates
     THEN /\ ToCatch(e, NoContainerMsg)
          /\ UNCHANGED container
     ELSE /\ pc' = [pc EXCEPT ![e] = "rm"]
          /\ \E p \in Programs :
               /\ p[1] = ExitCodeOf(container[e])
               /\ container' = [container EXCEPT ![e].out = p[2]]
          /\ UNCHANGED error
  /\ UNCHANGED <<service, lang, hasInput, tempDir, images, pulls, result,
                 steps>>
  /\ UNCHANGED <<termVars, apiVars, fileVars, dbVars>>

\* a success path that reports success whatever the exit code
SuccessResultAlwaysOk(e) ==
  Returned("success", container[e].out, ExitCodeOf(container[e]))

\* the result of the success path
SuccessResult(e) ==
  Returned(IF ExitCodeOf(container[e]) = 0 THEN "success" ELSE "error",
           container[e].out, ExitCodeOf(container[e]))

\* fs.rm(tempDir) of the success path, then the return of the result
RemoveWorkspace(e) ==
  /\ pc[e] = "rm"
  /\ steps' = [steps EXCEPT ![e].rm = @ + 1]
  /\ \E ok \in BOOLEAN :
       IF ok
       THEN /\ tempDir' = [tempDir EXCEPT ![e] = FALSE]
            /\ pc' = [pc EXCEPT ![e] = "done"]
            /\ result' = [result EXCEPT ![e] = SuccessResult(e)]
            /\ UNCHANGED error
       ELSE /\ ToCatch(e, FsErrorMsg)
            /\ UNCHANGED <<tempDir, result>>
  /\ UNCHANGED <<service, lang, hasInput, images, pulls, container>>
  /\ UNCHANGED <<termVars, apiVars, fileVars, dbVars>>

\* a catch block whose fs.rm is not guarded: its failure rejects the call
CatchCleanupThrowing(e) ==
  /\ pc[e] = "catch"
  /\ steps' = [steps EXCEPT ![e].rm = @ + 1]
  /\ \E ok \in BOOLEAN :
       /\ tempDir' = [tempDir EXCEPT ![e] = IF ok THEN FALSE ELSE @]
       /\ result' = [result EXCEPT ![e] =
                       IF ok THEN Returned("error", error[e], 1)
                       ELSE Thrown(FsErrorMsg)]
  /\ pc' = [pc EXCEPT ![e] = "done"]
  /\ UNCHANGED <<service, lang, hasInput, images, pulls, container, error>>
  /\ UNCHANGED <<termVars, apiVars, fileVars, dbVars>>

\* the catch block: fs.rm(tempDir) whose failure is only logged, then the
\* error result
CatchCleanup(e) ==
  /\ pc[e] = "catch"
  /\ steps' = [steps EXCEPT ![e].rm = @ + 1]
  /\ \E ok \in BOOLEAN :
       tempDir' = [tempDir EXCEPT ![e] = IF ok THEN FALSE ELSE @]
  /\ pc' = [pc EXCEPT ![e] = "done"]
  /\ result' = [result EXCEPT ![e] = Returned("error", error[e], 1)]
  /\ UNCHANGED <<service, lang, hasInput, images, pulls, container, error>>
  /\ UNCHANGED <<termVars, apiVars, fileVars, dbVars>>

\* the output of the simulation's own catch: `Error: ${error.message}\n`
MockErrorMsg == "Error: simulation failed"

\* the mock executors: the simulated delay ends and the simulation returns
\* {status: 'success', exitCode: 0}, or the error result of its catch when
\* the simulation threw; nothing is removed
MockFinish(e) ==
  /\ pc[e] = "delay"
  /\ pc' = [pc EXCEPT ![e] = "done"]
  /\ \E r \in {Returned("success", "mock output", 0),
                Returned("error", MockErrorMsg, 1)} :
       result' = [result EXCEPT ![e] = r]
  /\ UNCHANGED <<service, lang, hasInput, tempDir, images, pulls, container,
                 error, steps>>
  /\ UNCHANGED <<termVars, apiVars, fileVars, dbVars>>

NextBatch ==
  \E e \in Execs :
    \/ Call(e)
    \/ AcquireWorkspace(e)
    \/ WriteCodeFile(e)
    \/ WriteInputFile(e)
    \/ InspectImage(e)
    \/ PullDone(e)
    \/ CreateContainer(e)
    \/ StartContainer(e)
    \/ AttachStdin(e)
    \/ ProgramExit(e)
    \/ ProgramLoops(e)
    \/ AutoRemove(e)
    \/ WaitContainer(e)
    \/ ContainerLogs(e)
    \/ RemoveWorkspace(e)
    \/ CatchCleanup(e)
    \/ MockFinish(e)

\* ------------------------------------------------------------------------
\* Terminal sessions: terminal-service.js and mock-terminal-service.js
\* ------------------------------------------------------------------------
TermServices == {"docker", "mock"}

\* the language of a terminal_create request: one in the image map
\* (written in upper case), one not, and one that names a property of
\* Object.prototype
TermLangInputs == {"PYTHON", "unknownlang", "constructor"}

\* the data of a terminal input event; NoData is an event sent without
\* data, for which `const { input } = data` throws a TypeError
NoData == "undefined"
Inputs == {"ls", NoData}

DefaultImage == "alpine:latest"

\* the imageMap of getImageForLanguage
imageMap ==
  [javascript |-> "node:16-alpine", python |-> "python:3.9-alpine",
   java |-> "openjdk:11-jdk-slim", cpp |-> "gcc:latest", c |-> "gcc:latest",
   go |-> "golang:alpine", ruby |-> "ruby:alpine", rust |-> "rust:slim",
   php |-> "php:cli-alpine"]

\* the inherited property imageMap[name] finds for a name of
\* Object.prototype: a truthy value that is not an image name
InheritedImage == "[object]"

\* getImageForLanguage(language); "" stands for a missing language
getImageForLanguage(language) ==
  IF language = "" THEN DefaultImage
  ELSE IF ToLower(language) \in DOMAIN imageMap
       THEN imageMap[ToLower(language)]
       ELSE IF ToLower(language) \in ObjectPrototypeKeys
            THEN InheritedImage
            ELSE DefaultImage

NoSocket == 0
NoSession == [present |-> FALSE, socket |-> NoSocket, active |-> FALSE,
              history |-> <<>>]
\* {container, stream, language}: the record has no socket and no active
\* field, reading them gives undefined
DockerSession == [present |-> TRUE, socket |-> NoSocket, active |-> FALSE,
                  history |-> <<>>]
\* {language, socket, history: [], active: true}
MockSession(k) == [present |-> TRUE, socket |-> k, active |-> TRUE,
                   history |-> <<>>]

\* made counts the containers docker.createContainer has returned for the
\* session; stopCalled tells whether container.stop() has been called
NoTermContainer == [st |-> "none", image |-> "none", made |-> 0,
                    stopCalled |-> FALSE]

NoEvent == [type |-> "none", id |-> 0]

\* the n-th input event a session acts on, with its data
Arrival(n, input) == <<n, input>>
Ev(type, id) == [type |-> type, id |-> id]

TermInit(svcs) ==
  /\ termService \in svcs
  /\ connected = [k \in Sockets |-> TRUE]
  /\ tpc = [s \in Sessions |-> "none"]
  /\ owner = [s \in Sessions |-> NoSocket]
  /\ tlang = [s \in Sessions |-> "none"]
  /\ tcontainer = [s \in Sessions |-> NoTermContainer]
  /\ sessions = [s \in Sessions |-> NoSession]
  /\ closing = [s \in Sessions |-> 0]
  /\ closeEmits = [s \in Sessions |-> 0]
  /\ outTimers = [s \in Sessions |-> <<>>]
  /\ evictTimers = [s \in Sessions |-> 0]
  /\ stdin = [s \in Sessions |-> <<>>]
  /\ event = NoEvent
  /\ emitted = <<>>
  /\ resizing = [s \in Sessions |-> 0]
  /\ lastOutput = [s \in Sessions |-> Arrival(0, "none")]
  /\ received = [s \in Sessions |-> 0]

\* the handlers terminal_input_<id>, terminal_close_<id> and disconnect
\* are registered once terminal_create has succeeded
Registered(s) == tpc[s] = "active"

\* a catch that marks the failure and tells the client nothing
TermCreateFailedSilently(s) ==
  /\ tpc' = [tpc EXCEPT ![s] = "failed"]
  /\ emitted' = <<>>

\* the catch of the terminal_create handler
TermCreateFailed(s) ==
  /\ tpc' = [tpc EXCEPT ![s] = "failed"]
  /\ emitted' = <<Ev("terminal_error", 0)>>

\* socket k has sent a terminal_create
Used(k) == \E s \in Sessions : owner[s] = k

\* socket.on('terminal_create'): uuidv4() gives the next unused session id;
\* the sockets are numbered in the order of their first terminal_create,
\* and the clients of one run ask for the same language.
\* Docker-backed: runs up to the await of docker.createContainer.
\* Mock: the whole handler; it stores the session, emits terminal_created
\* and the welcome output, and registers the handlers.
TermCreate(k, s) ==
  /\ connected[k]
  /\ \A j \in Sockets : j < k => Used(j)
  /\ tpc[s] = "none"
  /\ \A t \in Sessions : t < s => tpc[t] # "none"
  /\ \E l \in TermLangInputs :
       /\ \A t \in Sessions : t < s => tlang[t] = l
       /\ tlang' = [tlang EXCEPT ![s] = l]
  /\ owner' = [owner EXCEPT ![s] = k]
  /\ event' = Ev("terminal_create", k)
  /\ IF termService = "docker"
     THEN /\ tpc' = [tpc EXCEPT ![s] = "create"]
          /\ emitted' = <<>>
          /\ UNCHANGED sessions
     ELSE /\ tpc' = [tpc EXCEPT ![s] = "active"]
          /\ sessions' = [sessions EXCEPT ![s] = MockSession(k)]
          /\ emitted' = <<Ev("terminal_created", s), Ev("terminal_output", s)>>
  /\ UNCHANGED <<termService, closeEmits,
                 connected, tcontainer, closing, outTimers,
                 evictTimers, stdin,
                 resizing, lastOutput, received>>
  /\ UNCHANGED <<batchVars, apiVars, fileVars, dbVars>>

\* docker.createContainer({Image: image, ...}) settles
TermCreateContainer(s) ==
  /\ tpc[s] = "create"
  /\ event' = NoEvent
  /\ \E ok \in BOOLEAN :
       IF ok
       THEN /\ tcontainer' = [tcontainer EXCEPT ![s] =
                 [st |-> "created", image |-> getImageForLanguage(tlang[s]),
                  made |-> @.made + 1, stopCalled |-> FALSE]]
            /\ tpc' = [tpc EXCEPT ![s] = "start"]
            /\ emitted' = <<>>
       ELSE /\ TermCreateFailed(s)
            /\ UNCHANGED tcontainer
  /\ UNCHANGED <<termService, closeEmits,
                 connected, owner, tlang, sessions, closing,
                 outTimers, evictTimers, stdin,
                 resizing, lastOutput, received>>
  /\ UNCHANGED <<batchVars, apiVars, fileVars, dbVars>>

\* container.start() settles
TermStartContainer(s) ==
  /\ tpc[s] = "start"
  /\ event' = NoEvent
  /\ \E ok \in BOOLEAN :
       IF ok
       THEN /\ tcontainer' = [tcontainer EXCEPT ![s].st = "running"]
            /\ tpc' = [tpc EXCEPT ![s] = "attach"]
            /\ emitted' = <<>>
       ELSE /\ TermCreateFailed(s)
            /\ UNCHANGED tcontainer
  /\ UNCHANGED <<termService, closeEmits,
                 connected, owner, tlang, sessions, closing,
                 outTimers, evictTimers, stdin,
                 resizing, lastOutput, received>>
  /\ UNCHANGED <<batchVars, apiVars, fileVars, dbVars>>

\* an attach whose data handler emits a chunk before terminal_created
TermAttachDataFirst(s) ==
  /\ tpc[s] = "attach"
  /\ event' = NoEvent
  /\ \E ok \in BOOLEAN :
       IF ok
       THEN /\ sessions' = [sessions EXCEPT ![s] = DockerSession]
            /\ tpc' = [tpc EXCEPT ![s] = "active"]
            /\ emitted' = <<Ev("terminal_output", s),
                            Ev("terminal_created", s)>>
       ELSE /\ TermCreateFailed(s)
            /\ UNCHANGED sessions
  /\ UNCHANGED <<termService, closeEmits,
                 connected, owner, tlang, tcontainer, closing,
                 outTimers, evictTimers, stdin,
                 resizing, lastOutput, received>>
  /\ UNCHANGED <<batchVars, apiVars, fileVars, dbVars>>

\* container.attach() settles; on success the session is stored, the data
\* handler is installed, terminal_created is emitted and the handlers of
\* the session are registered
TermAttach(s) ==
  /\ tpc[s] = "attach"
  /\ event' = NoEvent
  /\ \E ok \in BOOLEAN :
       IF ok
       THEN /\ sessions' = [sessions EXCEPT ![s] = DockerSession]
            /\ tpc' = [tpc EXCEPT ![s] = "active"]
            /\ emitted' = <<Ev("terminal_created", s)>>
       ELSE /\ TermCreateFailed(s)
            /\ UNCHANGED sessions
  /\ UNCHANGED <<termService, closeEmits,
                 connected, owner, tlang, tcontainer, closing,
                 outTimers, evictTimers, stdin,
                 resizing, lastOutput, received>>
  /\ UNCHANGED <<batchVars, apiVars, fileVars, dbVars>>

RECURSIVE SumTo(_, _)
SumTo(f, n) == IF n = 0 THEN 0 ELSE f[n] + SumTo(f, n - 1)

\* the inputs the sessions have acted on, the close operations and the
\* resize calls that are pending
InputsAccepted == SumTo(received, NumSessions)
ClosesPending ==
  SumTo([s \in Sessions |-> closing[s] + evictTimers[s]], NumSessions)
ResizesPending == SumTo(resizing, NumSessions)

\* the close handlers of the mock whose continuation has not run yet
EmitsPending == SumTo(closeEmits, NumSessions)

\* stream.on('data'): the listener is called with the next chunk of the
\* running container and emits it in the same step, so the chunks are
\* emitted in the order the stream delivers them
TermStreamData(s) ==
  /\ termService = "docker"
  /\ Registered(s)
  /\ tcontainer[s].st = "running"
  /\ event' = NoEvent
  /\ emitted' = <<Ev("terminal_output", s)>>
  /\ UNCHANGED <<termService, closeEmits,
                 connected, tpc, owner, tlang, tcontainer,
                 sessions, closing, outTimers, evictTimers, stdin,
                 resizing, lastOutput, received>>
  /\ UNCHANGED <<batchVars, apiVars, fileVars, dbVars>>

\* environment: the shell of the container exits (AutoRemove removes it).
\* /bin/sh runs until its input tells it to exit or the daemon kills it:
\* the model lets it end once the session is set up.
TermContainerExit(s) ==
  /\ Registered(s)
  /\ tcontainer[s].st = "running"
  /\ tcontainer' = [tcontainer EXCEPT ![s].st = "stopped"]
  /\ event' = NoEvent
  /\ emitted' = <<>>
  /\ UNCHANGED <<termService, closeEmits,
                 connected, tpc, owner, tlang, sessions,
                 closing, outTimers, evictTimers, stdin,
                 resizing, lastOutput, received>>
  /\ UNCHANGED <<batchVars, apiVars, fileVars, dbVars>>


\* socket.on('terminal_input_<id>'). An event without data throws at the
\* destructuring, before the session is looked up: the Docker-backed catch
\* logs the error, the mock's catch emits it as terminal_output at once.
\* Otherwise: stream.write(input) (Docker-backed); history.push(input) and
\* setTimeout(..., 300) (mock)
TermInput(s) ==
  /\ Registered(s)
  /\ connected[owner[s]]
  /\ event' = Ev("terminal_input", s)
  /\ \E input \in Inputs :
       IF termService = "docker"
       THEN /\ IF input # NoData /\ sessions[s].present
               THEN /\ InputsAccepted < MaxInputs
                    /\ stdin' = [stdin EXCEPT ![s] =
                                   Append(@, Arrival(received[s] + 1, input))]
                    /\ received' = [received EXCEPT ![s] = @ + 1]
               ELSE UNCHANGED <<stdin, received>>
            /\ emitted' = <<>>
            /\ UNCHANGED <<sessions, outTimers, lastOutput>>
       ELSE IF input = NoData
            THEN /\ InputsAccepted < MaxInputs
                 /\ received' = [received EXCEPT ![s] = @ + 1]
                 /\ lastOutput' = [lastOutput EXCEPT ![s] =
                                     Arrival(received[s] + 1, input)]
                 /\ emitted' = <<Ev("terminal_output", s)>>
                 /\ UNCHANGED <<sessions, outTimers, stdin>>
            ELSE /\ IF sessions[s].present /\ sessions[s].active
                    THEN /\ InputsAccepted < MaxInputs
                         /\ received' = [received EXCEPT ![s] = @ + 1]
                         /\ sessions' = [sessions EXCEPT ![s].history =
                               Append(@, Arrival(received[s] + 1, input))]
                         /\ outTimers' = [outTimers EXCEPT ![s] =
                               Append(@, Arrival(received[s] + 1, input))]
                    ELSE UNCHANGED <<sessions, outTimers, received>>
                 /\ emitted' = <<>>
                 /\ UNCHANGED <<stdin, lastOutput>>
  /\ UNCHANGED <<termService, closeEmits,
                 connected, tpc, owner, tlang, tcontainer,
                 closing, evictTimers, resizing>>
  /\ UNCHANGED <<batchVars, apiVars, fileVars, dbVars>>

\* socket.on('terminal_resize_<id>') up to the await of
\* session.container.resize(); the mock registers no such handler
TermResize(s) ==
  /\ termService = "docker"
  /\ Registered(s)
  /\ connected[owner[s]]
  /\ event' = Ev("terminal_resize", s)
  /\ emitted' = <<>>
  /\ IF sessions[s].present
     THEN /\ ResizesPending < MaxResizes
          /\ resizing' = [resizing EXCEPT ![s] = @ + 1]
     ELSE UNCHANGED resizing
  /\ UNCHANGED <<termService, closeEmits,
                 connected, tpc, owner, tlang, tcontainer,
                 sessions, closing, outTimers, evictTimers, stdin, lastOutput, received>>
  /\ UNCHANGED <<batchVars, apiVars, fileVars, dbVars>>

\* a resize that answers a rejection by creating a fresh container for the
\* session
TermResizeReprovision(s) ==
  /\ resizing[s] > 0
  /\ resizing' = [resizing EXCEPT ![s] = @ - 1]
  /\ event' = NoEvent
  /\ emitted' = <<>>
  /\ \E ok \in BOOLEAN :
       IF ok \/ ~sessions[s].present
       THEN UNCHANGED tcontainer
       ELSE tcontainer' = [tcontainer EXCEPT ![s].st = "running",
                                             ![s].made = @ + 1]
  /\ UNCHANGED <<termService, closeEmits, connected, tpc, owner, tlang,
                 sessions, closing, outTimers, evictTimers, stdin, lastOutput, received>>
  /\ UNCHANGED <<batchVars, apiVars, fileVars, dbVars>>

\* session.container.resize() settles; a rejection is only logged
TermResizeDone(s) ==
  /\ resizing[s] > 0
  /\ resizing' = [resizing EXCEPT ![s] = @ - 1]
  /\ event' = NoEvent
  /\ emitted' = <<>>
  /\ UNCHANGED <<termService, closeEmits,
                 connected, tpc, owner, tlang, tcontainer,
                 sessions, closing, outTimers, evictTimers, stdin, lastOutput, received>>
  /\ UNCHANGED <<batchVars, apiVars, fileVars, dbVars>>

\* the timers of a list that may fire next: timers set with the same delay
\* fire in the order they were set, so only the oldest one is due
DueTimers(q) == IF q = <<>> THEN {} ELSE {1}

RemoveAt(q, i) == SubSeq(q, 1, i - 1) \o SubSeq(q, i + 1, Len(q))

\* the 300 ms timer of the mock input handler fires: processCommand's
\* output is emitted, whatever the session has become meanwhile. Promise
\* continuations run before any timer
TermOutputTimer(s) ==
  /\ EmitsPending = 0
  /\ \E i \in DueTimers(outTimers[s]) :
       /\ lastOutput' = [lastOutput EXCEPT ![s] = outTimers[s][i]]
       /\ outTimers' = [outTimers EXCEPT ![s] = RemoveAt(@, i)]
  /\ event' = NoEvent
  /\ emitted' = <<Ev("terminal_output", s)>>
  /\ UNCHANGED <<termService, closeEmits,
                 connected, tpc, owner, tlang, tcontainer,
                 sessions, closing, evictTimers, stdin, resizing,
                 received>>
  /\ UNCHANGED <<batchVars, apiVars, fileVars, dbVars>>

\* closeTerminalSession(sessionId) up to its await (Docker-backed), or
\* whole (mock)
CloseSession(sess, s) ==
  IF termService = "docker" THEN sess
  ELSE IF sess[s].present THEN [sess EXCEPT ![s].active = FALSE] ELSE sess

\* socket.on('terminal_close_<id>') up to the await of the handler: the
\* Docker-backed closeTerminalSession waits for container.stop(); the
\* mock's has cleared the active flag and set the 1000 ms timer, and the
\* handler waits for its promise
TermClose(s) ==
  /\ Registered(s)
  /\ connected[owner[s]]
  /\ event' = Ev("terminal_close", s)
  /\ emitted' = <<>>
  /\ IF termService = "docker"
     THEN /\ IF sessions[s].present
             THEN /\ ClosesPending < MaxCloses
                  /\ closing' = [closing EXCEPT ![s] = @ + 1]
                  /\ tcontainer' = [tcontainer EXCEPT ![s].stopCalled = TRUE]
             ELSE UNCHANGED <<closing, tcontainer>>
          /\ UNCHANGED <<sessions, evictTimers, closeEmits>>
     ELSE /\ EmitsPending < MaxCloses
          /\ closeEmits' = [closeEmits EXCEPT ![s] = @ + 1]
          /\ IF sessions[s].present
             THEN /\ ClosesPending < MaxCloses
                  /\ evictTimers' = [evictTimers EXCEPT ![s] = @ + 1]
             ELSE UNCHANGED evictTimers
          /\ sessions' = CloseSession(sessions, s)
          /\ UNCHANGED <<closing, tcontainer>>
  /\ UNCHANGED <<termService, connected, tpc, owner, tlang,
                 outTimers, stdin,
                 resizing, lastOutput, received>>
  /\ UNCHANGED <<batchVars, apiVars, fileVars, dbVars>>

\* the continuation of the mock close handler: 'Terminal session closed.'
\* is emitted as terminal_output
TermCloseEmit(s) ==
  /\ closeEmits[s] > 0
  /\ closeEmits' = [closeEmits EXCEPT ![s] = @ - 1]
  /\ event' = NoEvent
  /\ emitted' = <<Ev("terminal_output", s)>>
  /\ UNCHANGED <<termService, connected, tpc, owner, tlang, tcontainer,
                 sessions, closing, outTimers, evictTimers, stdin,
                 resizing, lastOutput, received>>
  /\ UNCHANGED <<batchVars, apiVars, fileVars, dbVars>>

\* session.container.stop() settles: on success the session is deleted,
\* on failure the error is logged and the session stays
TermStopDone(s) ==
  /\ closing[s] > 0
  /\ closing' = [closing EXCEPT ![s] = @ - 1]
  /\ event' = NoEvent
  /\ emitted' = <<>>
  /\ \E ok \in BOOLEAN :
       IF ok /\ tcontainer[s].st = "running"
       THEN /\ tcontainer' = [tcontainer EXCEPT ![s].st = "stopped"]
            /\ sessions' = [sessions EXCEPT ![s] = NoSession]
       ELSE UNCHANGED <<tcontainer, sessions>>
  /\ UNCHANGED <<termService, closeEmits,
                 connected, tpc, owner, tlang, outTimers,
                 evictTimers, stdin,
                 resizing, lastOutput, received>>
  /\ UNCHANGED <<batchVars, apiVars, fileVars, dbVars>>

\* the 1000 ms timer of the mock closeTerminalSession fires and deletes
\* the record. Timers of different delays are kept in different lists, so
\* a 300 ms timer of the session may still be pending. Promise
\* continuations run before any timer
TermEvict(s) ==
  /\ EmitsPending = 0
  /\ evictTimers[s] > 0
  /\ evictTimers' = [evictTimers EXCEPT ![s] = @ - 1]
  /\ sessions' = [sessions EXCEPT ![s] = NoSession]
  /\ event' = NoEvent
  /\ emitted' = <<>>
  /\ UNCHANGED <<termService, closeEmits, connected, tpc, owner, tlang,
                 tcontainer, closing, outTimers, stdin, resizing, lastOutput, received>>
  /\ UNCHANGED <<batchVars, apiVars, fileVars, dbVars>>

\* the sessions a disconnect handler of socket k closes: those whose
\* record's socket field is the socket
SessionsOfSocket(k) ==
  {s \in Sessions : sessions[s].present /\ sessions[s].socket = k}

\* the disconnect handlers registered on socket k, one per terminal_create
\* that succeeded on it
DisconnectHandlers(k) ==
  Cardinality({s \in Sessions : Registered(s) /\ owner[s] = k})

\* socket 'disconnect': every registered handler walks activeSessions and
\* closes the sessions of the socket; a socket that never sent a
\* terminal_create has no handler
Disconnect(k) ==
  /\ connected[k]
  /\ Used(k)
  /\ connected' = [connected EXCEPT ![k] = FALSE]
  /\ event' = Ev("disconnect", k)
  /\ emitted' = <<>>
  /\ IF termService = "docker"
     THEN /\ closing' = [s \in Sessions |->
                 IF s \in SessionsOfSocket(k) /\ DisconnectHandlers(k) > 0
                 THEN closing[s] + 1 ELSE closing[s]]
          /\ tcontainer' = [s \in Sessions |->
                 IF s \in SessionsOfSocket(k) /\ DisconnectHandlers(k) > 0
                 THEN [tcontainer[s] EXCEPT !.stopCalled = TRUE]
                 ELSE tcontainer[s]]
          /\ UNCHANGED <<sessions, evictTimers>>
     ELSE /\ sessions' = [s \in Sessions |->
                 IF s \in SessionsOfSocket(k) /\ DisconnectHandlers(k) > 0
                 THEN [sessions[s] EXCEPT !.active = FALSE] ELSE sessions[s]]
          /\ evictTimers' = [s \in Sessions |->
                 IF s \in SessionsOfSocket(k)
                 THEN evictTimers[s] + DisconnectHandlers(k)
                 ELSE evictTimers[s]]
          /\ UNCHANGED <<closing, tcontainer>>
  /\ UNCHANGED <<termService, closeEmits, tpc, owner, tlang, outTimers,
                 stdin,
                 resizing, lastOutput, received>>
  /\ UNCHANGED <<batchVars, apiVars, fileVars, dbVars>>

\* the steps the event loop takes by itself for a session
TermCodeStep(s) ==
  \/ TermCreateContainer(s) \/ TermStartContainer(s) \/ TermAttach(s)
  \/ TermOutputTimer(s) \/ TermStopDone(s) \/ TermEvict(s)
  \/ TermResizeDone(s) \/ TermCloseEmit(s)

NextTerm ==
  \/ \E k \in Sockets, s \in Sessions : TermCreate(k, s)
  \/ \E s \in Sessions : TermCreateContainer(s)
  \/ \E s \in Sessions : TermStartContainer(s)
  \/ \E s \in Sessions : TermAttach(s)
  \/ \E s \in Sessions : TermStreamData(s)
  \/ \E s \in Sessions : TermContainerExit(s)
  \/ \E s \in Sessions : TermInput(s)
  \/ \E s \in Sessions : TermResize(s)
  \/ \E s \in Sessions : TermResizeDone(s)
  \/ \E s \in Sessions : TermOutputTimer(s)
  \/ \E s \in Sessions : TermClose(s)
  \/ \E s \in Sessions : TermCloseEmit(s)
  \/ \E s \in Sessions : TermStopDone(s)
  \/ \E s \in Sessions : TermEvict(s)
  \/ \E k \in Sockets : Disconnect(k)

\* ------------------------------------------------------------------------
\* Specifications
\* ------------------------------------------------------------------------
\* ------------------------------------------------------------------------
\* index.js: POST /api/execute and the execution rooms
\* ------------------------------------------------------------------------
ApiInit ==
  /\ response = [e \in Execs |-> 0]
  /\ room = [e \in Execs |-> FALSE]
  /\ delivered = [e \in Execs |-> FALSE]

\* the POST /api/execute handler after `await executeCode(...)` settles:
\* res.status(200).json({executionId, message, result}) and, in the same
\* continuation, io.to(executionId).emit('execution_result', result), which
\* reaches the sockets that are in the room at that moment; a rejection
\* is answered with 500 and nothing is emitted
Respond(e) ==
  /\ pc[e] = "done"
  /\ response[e] = 0
  /\ IF result[e].kind = "returned"
     THEN /\ response' = [response EXCEPT ![e] = 200]
          /\ delivered' = [delivered EXCEPT ![e] = room[e]]
     ELSE /\ response' = [response EXCEPT ![e] = 500]
          /\ UNCHANGED delivered
  /\ UNCHANGED room
  /\ UNCHANGED <<batchVars, termVars, fileVars, dbVars>>

\* socket.on('join_execution'): socket.join(executionId). The id is the
\* uuid the handler generated; a client learns it from the response body
JoinExecution(e) ==
  /\ response[e] # 0
  /\ ~room[e]
  /\ room' = [room EXCEPT ![e] = TRUE]
  /\ UNCHANGED <<response, delivered>>
  /\ UNCHANGED <<batchVars, termVars, fileVars, dbVars>>

\* ------------------------------------------------------------------------
\* The name of the source file
\* ------------------------------------------------------------------------
MaxTokens == 4

\* the tokens a source text is made of
Tokens == {"public", "class", "Foo", "Foo{", "{"}

Sources == UNION {[1..n -> Tokens] : n \in 0..MaxTokens}

FileLanguages == {"Java", "java", "python", "html", "constructor"}

\* the source file the command of a profile names: command and
\* inputCommand of docker-service.js name the same file
commandFile ==
  [javascript |-> "program.js", python |-> "program.py",
   java |-> "Main.java", cpp |-> "program.cpp", c |-> "program.c",
   html |-> "none"]

\* the file config.command (or config.inputCommand) compiles or runs
RunFile(svc, language) ==
  IF LookupConfig(svc, language) \in {NoConfig, InheritedConfig} THEN "none"
  ELSE commandFile[ToLower(language)]

FileInit(srcs, langs) ==
  /\ source \in srcs
  /\ sourceLang \in langs
  /\ filename = "none"

\* no request is made: the runs of the terminal and database services
NoFile == FileInit({<<>>}, {"none"})

\* ------------------------------------------------------------------------
\* user-service.js and db-service.js: the MongoDB collections
\* ------------------------------------------------------------------------
NumCalls == 3
Calls == 1..NumCalls

Emails == {"ann@example.org", "bob@example.org"}
UserIds == {"u1", "u2"}
SnippetKeys == {<<"u1", "python">>, <<"u1", "java">>, <<"u2", "python">>}

UserExistsMsg == "User with this email already exists"
DbErrorMsg == "db error"

\* the OAuth providers and the ids their profiles carry; a profile's id
\* and its email are independent
Providers == {"github", "google"}
ProfileIds == {"p1"}

NoRegCall == [op |-> "none", email |-> "none", provider |-> "none",
              providerId |-> "none", pc |-> "idle", outcome |-> "none"]
NoSnipCall == [op |-> "none", userId |-> "none", language |-> "none",
               pc |-> "idle", outcome |-> "none"]

\* the code creates no index: the collections start empty and accept any
\* document. usersColl[em] lists the documents with email em in insertion
\* order, each by the <<provider, providerId>> it carries; snippetsColl[k]
\* counts the documents of key k
DbInit ==
  /\ usersColl = [em \in Emails |-> <<>>]
  /\ snippetsColl = [k \in SnippetKeys |-> 0]
  /\ reg = [c \in Calls |-> NoRegCall]
  /\ snip = [c \in Calls |-> NoSnipCall]

\* the calls made so far
StartedCalls ==
  Cardinality({c \in Calls : reg[c].pc # "idle"})
    + Cardinality({c \in Calls : snip[c].pc # "idle"})

\* the next call of the user functions takes the first free slot
FreeRegCall(c) ==
  /\ StartedCalls < NumCalls
  /\ reg[c].pc = "idle"
  /\ \A d \in Calls : d < c => reg[d].pc # "idle"

\* the next call of the snippet functions takes the first free slot
FreeSnipCall(c) ==
  /\ StartedCalls < NumCalls
  /\ snip[c].pc = "idle"
  /\ \A d \in Calls : d < c => snip[d].pc # "idle"

\* a call of the user functions that ends with the given outcome
RegDone(c, out) == [reg EXCEPT ![c].pc = "done", ![c].outcome = out]

\* a call of the snippet functions that ends with the given outcome
SnipDone(c, out) == [snip EXCEPT ![c].pc = "done", ![c].outcome = out]

\* an await of the users collection that reads, or updates fields the
\* model does not follow: the call ends there, with the result or with the
\* rethrown rejection
RegSettle(c, at) ==
  /\ reg[c].pc = at
  /\ \E ok \in BOOLEAN :
       reg' = RegDone(c, IF ok THEN "success" ELSE DbErrorMsg)
  /\ UNCHANGED <<usersColl, snippetsColl, snip>>
  /\ UNCHANGED <<batchVars, termVars, apiVars, fileVars>>

\* insertOne of the user document of the call settles and the call returns
RegInsert(c) ==
  /\ reg[c].pc = "insert"
  /\ \E ok \in BOOLEAN :
       IF ok
       THEN /\ usersColl' = [usersColl EXCEPT ![reg[c].email] =
                               Append(@, <<reg[c].provider,
                                           reg[c].providerId>>)]
            /\ reg' = RegDone(c, "success")
       ELSE /\ reg' = RegDone(c, DbErrorMsg)
            /\ UNCHANGED usersColl
  /\ UNCHANGED <<snippetsColl, snip>>
  /\ UNCHANGED <<batchVars, termVars, apiVars, fileVars>>

\* the document after $set of the provider fields the call carries
SetProvider(doc, c) ==
  <<IF reg[c].provider # "none" THEN reg[c].provider ELSE doc[1],
    IF reg[c].providerId # "none" THEN reg[c].providerId ELSE doc[2]>>

\* updateOne({email}, {$set: {...}}) of the call settles: the first
\* document with the email takes the provider fields the call carries, and
\* the call goes on at `next`
RegUpdate(c, at, next) ==
  /\ reg[c].pc = at
  /\ \E ok \in BOOLEAN :
       IF ok
       THEN /\ usersColl' =
                 IF usersColl[reg[c].email] # <<>>
                 THEN [usersColl EXCEPT ![reg[c].email] =
                         [@ EXCEPT ![1] = SetProvider(@, c)]]
                 ELSE usersColl
            /\ reg' = IF next = "done" THEN RegDone(c, "success")
                      ELSE [reg EXCEPT ![c].pc = next]
       ELSE /\ reg' = RegDone(c, DbErrorMsg)
            /\ UNCHANGED usersColl
  /\ UNCHANGED <<snippetsColl, snip>>
  /\ UNCHANGED <<batchVars, termVars, apiVars, fileVars>>

\* registerUser(email, password, name) up to `await findOne({email})`; the
\* user it builds has no provider
RegisterUser(c) ==
  /\ FreeRegCall(c)
  /\ \E em \in Emails :
       reg' = [reg EXCEPT ![c] =
                 [op |-> "registerUser", email |-> em, provider |-> "none",
                  providerId |-> "none", pc |-> "find",
                  outcome |-> "none"]]
  /\ UNCHANGED <<usersColl, snippetsColl, snip>>
  /\ UNCHANGED <<batchVars, termVars, apiVars, fileVars>>

\* findOne settles: an existing user makes the call throw; a rejection of
\* the driver is rethrown; otherwise the call goes on to insertOne
RegisterUserFind(c) ==
  /\ reg[c].op = "registerUser"
  /\ reg[c].pc = "find"
  /\ \E ok \in BOOLEAN :
       reg' = IF ~ok THEN RegDone(c, DbErrorMsg)
              ELSE IF usersColl[reg[c].email] # <<>>
              THEN RegDone(c, UserExistsMsg)
              ELSE [reg EXCEPT ![c].pc = "insert"]
  /\ UNCHANGED <<usersColl, snippetsColl, snip>>
  /\ UNCHANGED <<batchVars, termVars, apiVars, fileVars>>

\* insertOne(user) settles and the call returns {user, token}
RegisterUserInsert(c) ==
  /\ reg[c].op = "registerUser"
  /\ RegInsert(c)

\* saveUser(user) up to `await findOne({email: user.email})`; the user
\* object is the caller's: each provider field is absent ("none") or set
SaveUser(c) ==
  /\ FreeRegCall(c)
  /\ \E em \in Emails, pv \in {"none"} \cup Providers,
        pid \in {"none"} \cup ProfileIds :
       reg' = [reg EXCEPT ![c] =
                 [op |-> "saveUser", email |-> em, provider |-> pv,
                  providerId |-> pid, pc |-> "find", outcome |-> "none"]]
  /\ UNCHANGED <<usersColl, snippetsColl, snip>>
  /\ UNCHANGED <<batchVars, termVars, apiVars, fileVars>>

\* findOne settles: an existing user leads to updateOne, none to insertOne
SaveUserFind(c) ==
  /\ reg[c].op = "saveUser"
  /\ reg[c].pc = "find"
  /\ \E ok \in BOOLEAN :
       reg' = IF ~ok THEN RegDone(c, DbErrorMsg)
              ELSE IF usersColl[reg[c].email] # <<>>
              THEN [reg EXCEPT ![c].pc = "update"]
              ELSE [reg EXCEPT ![c].pc = "insert"]
  /\ UNCHANGED <<usersColl, snippetsColl, snip>>
  /\ UNCHANGED <<batchVars, termVars, apiVars, fileVars>>

\* updateOne({email}, {$set: {...user, updatedAt}}) settles: it adds no
\* document and stores the fields of the user object
SaveUserUpdate(c) ==
  /\ reg[c].op = "saveUser"
  /\ RegUpdate(c, "update", "done")

\* insertOne({...user, createdAt, updatedAt}) settles
SaveUserInsert(c) ==
  /\ reg[c].op = "saveUser"
  /\ RegInsert(c)

\* oauthLogin(provider, profile) up to
\* `await findOne({provider, providerId: profile.id})`
OauthLogin(c) ==
  /\ FreeRegCall(c)
  /\ \E pv \in Providers, pid \in ProfileIds, em \in Emails :
       reg' = [reg EXCEPT ![c] =
                 [op |-> "oauthLogin", email |-> em, provider |-> pv,
                  providerId |-> pid, pc |-> "findProvider",
                  outcome |-> "none"]]
  /\ UNCHANGED <<usersColl, snippetsColl, snip>>
  /\ UNCHANGED <<batchVars, termVars, apiVars, fileVars>>

\* findOne({provider, providerId}) finds a document: some document, of
\* whatever email, carries both the provider and the provider id
Linked(pv, pid) ==
  \E em \in Emails :
    \E i \in DOMAIN usersColl[em] : usersColl[em][i] = <<pv, pid>>

\* findOne({provider, providerId}) settles: a user found has its last
\* login updated, otherwise the user is looked up by email
OauthFindProvider(c) ==
  /\ reg[c].op = "oauthLogin"
  /\ reg[c].pc = "findProvider"
  /\ \E ok \in BOOLEAN :
       reg' = IF ~ok THEN RegDone(c, DbErrorMsg)
              ELSE IF Linked(reg[c].provider, reg[c].providerId)
              THEN [reg EXCEPT ![c].pc = "touch"]
              ELSE [reg EXCEPT ![c].pc = "findEmail"]
  /\ UNCHANGED <<usersColl, snippetsColl, snip>>
  /\ UNCHANGED <<batchVars, termVars, apiVars, fileVars>>

\* findOne({email: profile.email}) settles: a user found is given the
\* provider info, otherwise a new user is inserted
OauthFindEmail(c) ==
  /\ reg[c].op = "oauthLogin"
  /\ reg[c].pc = "findEmail"
  /\ \E ok \in BOOLEAN :
       reg' = IF ~ok THEN RegDone(c, DbErrorMsg)
              ELSE IF usersColl[reg[c].email] # <<>>
              THEN [reg EXCEPT ![c].pc = "link"]
              ELSE [reg EXCEPT ![c].pc = "insert"]
  /\ UNCHANGED <<usersColl, snippetsColl, snip>>
  /\ UNCHANGED <<batchVars, termVars, apiVars, fileVars>>

\* updateOne({email}, {$set: {provider, providerId, ...}}) settles: the
\* first document with the email gets the provider info; the user is then
\* read again
OauthLink(c) ==
  /\ reg[c].op = "oauthLogin"
  /\ RegUpdate(c, "link", "refetch")

\* the second findOne({email}) settles and the call returns {user, token}
OauthRefetch(c) ==
  /\ reg[c].op = "oauthLogin"
  /\ RegSettle(c, "refetch")

\* insertOne(user) of the new OAuth user settles
OauthInsert(c) ==
  /\ reg[c].op = "oauthLogin"
  /\ RegInsert(c)

\* updateOne({provider, providerId}, {$set: {lastLoginAt}}) settles
OauthTouch(c) ==
  /\ reg[c].op = "oauthLogin"
  /\ RegSettle(c, "touch")

\* saveCodeSnippet(userId, language, code) up to
\* `await findOne({userId, language})`
SaveCodeSnippet(c) ==
  /\ FreeSnipCall(c)
  /\ \E k \in SnippetKeys :
       snip' = [snip EXCEPT ![c] =
                  [op |-> "saveCodeSnippet", userId |-> k[1],
                   language |-> k[2], pc |-> "find", outcome |-> "none"]]
  /\ UNCHANGED <<usersColl, snippetsColl, reg>>
  /\ UNCHANGED <<batchVars, termVars, apiVars, fileVars>>

\* the (userId, language) of a saveCodeSnippet call
SnipKey(c) == <<snip[c].userId, snip[c].language>>

\* findOne settles: an existing snippet leads to updateOne, none to
\* insertOne
SaveCodeSnippetFind(c) ==
  /\ snip[c].pc = "find"
  /\ \E ok \in BOOLEAN :
       snip' = IF ~ok THEN SnipDone(c, DbErrorMsg)
               ELSE IF snippetsColl[SnipKey(c)] > 0
               THEN [snip EXCEPT ![c].pc = "update"]
               ELSE [snip EXCEPT ![c].pc = "insert"]
  /\ UNCHANGED <<usersColl, snippetsColl, reg>>
  /\ UNCHANGED <<batchVars, termVars, apiVars, fileVars>>

\* updateOne({userId, language}, {$set: {code, updatedAt}}) settles: it
\* changes one matching document and adds none
SaveCodeSnippetUpdate(c) ==
  /\ snip[c].pc = "update"
  /\ \E ok \in BOOLEAN :
       snip' = SnipDone(c, IF ok THEN "success" ELSE DbErrorMsg)
  /\ UNCHANGED <<usersColl, snippetsColl, reg>>
  /\ UNCHANGED <<batchVars, termVars, apiVars, fileVars>>

\* insertOne(snippet) settles
SaveCodeSnippetInsert(c) ==
  /\ snip[c].pc = "insert"
  /\ \E ok \in BOOLEAN :
       IF ok
       THEN /\ snippetsColl' = [snippetsColl EXCEPT ![SnipKey(c)] = @ + 1]
            /\ snip' = SnipDone(c, "success")
       ELSE /\ snip' = SnipDone(c, DbErrorMsg)
            /\ UNCHANGED snippetsColl
  /\ UNCHANGED <<usersColl, reg>>
  /\ UNCHANGED <<batchVars, termVars, apiVars, fileVars>>

\* deleteAllUserSnippets(userId) up to `await deleteMany({userId})`
DeleteAllUserSnippets(c) ==
  /\ FreeSnipCall(c)
  /\ \E u \in UserIds :
       snip' = [snip EXCEPT ![c] =
                  [op |-> "deleteAllUserSnippets", userId |-> u,
                   language |-> "none", pc |-> "deleteMany",
                   outcome |-> "none"]]
  /\ UNCHANGED <<usersColl, snippetsColl, reg>>
  /\ UNCHANGED <<batchVars, termVars, apiVars, fileVars>>

\* deleteMany({userId}) settles: every snippet of the user is removed
DeleteAllUserSnippetsDone(c) ==
  /\ snip[c].pc = "deleteMany"
  /\ \E ok \in BOOLEAN :
       IF ok
       THEN /\ snippetsColl' =
                 [k \in SnippetKeys |->
                    IF k[1] = snip[c].userId THEN 0 ELSE snippetsColl[k]]
            /\ snip' = SnipDone(c, "success")
       ELSE /\ snip' = SnipDone(c, DbErrorMsg)
            /\ UNCHANGED snippetsColl
  /\ UNCHANGED <<usersColl, reg>>
  /\ UNCHANGED <<batchVars, termVars, apiVars, fileVars>>

NextDb ==
  \E c \in Calls :
    \/ RegisterUser(c)
    \/ RegisterUserFind(c)
    \/ RegisterUserInsert(c)
    \/ SaveUser(c)
    \/ SaveUserFind(c)
    \/ SaveUserUpdate(c)
    \/ SaveUserInsert(c)
    \/ OauthLogin(c)
    \/ OauthFindProvider(c)
    \/ OauthFindEmail(c)
    \/ OauthLink(c)
    \/ OauthRefetch(c)
    \/ OauthInsert(c)
    \/ OauthTouch(c)
    \/ SaveCodeSnippet(c)
    \/ SaveCodeSnippetFind(c)
    \/ SaveCodeSnippetUpdate(c)
    \/ SaveCodeSnippetInsert(c)
    \/ DeleteAllUserSnippets(c)
    \/ DeleteAllUserSnippetsDone(c)

\* the requests carry an empty code and one of the batch languages
InitBatch ==
  /\ BatchInit(Services) /\ TermInit({"mock"}) /\ ApiInit
  /\ FileInit({<<>>}, BatchLanguages)
  /\ DbInit

\* the batch executor alone
SpecBatch == InitBatch /\ [][NextBatch]_vars

\* the steps of executeCode itself: a continuation whose await has settled
\* is run by the event loop
CodeStep(e) ==
  \/ Call(e) \/ AcquireWorkspace(e) \/ WriteCodeFile(e)
  \/ WriteInputFile(e) \/ InspectImage(e) \/ PullDone(e)
  \/ CreateContainer(e) \/ StartContainer(e) \/ AttachStdin(e)
  \/ WaitContainer(e) \/ ContainerLogs(e) \/ RemoveWorkspace(e)
  \/ CatchCleanup(e) \/ MockFinish(e)

FairSpecBatch == SpecBatch /\ \A e \in Execs : WF_vars(CodeStep(e))

InitTerm ==
  /\ BatchInit({"mock"}) /\ TermInit(TermServices) /\ ApiInit /\ NoFile
  /\ DbInit

\* the terminal service alone
SpecTerm == InitTerm /\ [][NextTerm]_vars

\* timers fire and settled awaits are resumed
FairSpecTerm == SpecTerm /\ \A s \in Sessions : WF_vars(TermCodeStep(s))

\* the batch executor behind POST /api/execute
NextApi ==
  \E e \in Execs :
    \/ Call(e)
    \/ AcquireWorkspace(e)
    \/ WriteCodeFile(e)
    \/ WriteInputFile(e)
    \/ InspectImage(e)
    \/ PullDone(e)
    \/ CreateContainer(e)
    \/ StartContainer(e)
    \/ AttachStdin(e)
    \/ ProgramExit(e)
    \/ ProgramLoops(e)
    \/ AutoRemove(e)
    \/ WaitContainer(e)
    \/ ContainerLogs(e)
    \/ RemoveWorkspace(e)
    \/ CatchCleanup(e)
    \/ MockFinish(e)
    \/ Respond(e)
    \/ JoinExecution(e)

SpecApi == InitBatch /\ [][NextApi]_vars

\* the event loop runs the continuations of executeCode and of the handler
FairSpecApi ==
  SpecApi /\ \A e \in Execs : WF_vars(CodeStep(e) \/ Respond(e))

\* the file naming alone, over every source and language: the first call
\* up to the continuation that names the file and writes the code
InitFile ==
  /\ BatchInit(FileServices) /\ TermInit({"mock"}) /\ ApiInit
  /\ FileInit(Sources, FileLanguages)
  /\ DbInit
NextFile == Call(1) \/ AcquireWorkspace(1)
SpecFile == InitFile /\ [][NextFile]_vars

\* the two database services alone
InitDb ==
  BatchInit({"mock"}) /\ TermInit({"mock"}) /\ ApiInit /\ NoFile /\ DbInit
SpecDb == InitDb /\ [][NextDb]_vars

\* the whole server: the executor behind POST /api/execute, the terminal
\* sockets and the database services
Init ==
  /\ BatchInit(Services) /\ TermInit(TermServices) /\ ApiInit
  /\ FileInit(Sources, BatchLanguages \cup FileLanguages)
  /\ DbInit
Next == NextApi \/ NextTerm \/ NextDb
Spec == Init /\ [][Next]_vars

\* ------------------------------------------------------------------------
\* Claims about the batch executor
\* ------------------------------------------------------------------------
HasReturned(e) == pc[e] = "done" /\ result[e].kind = "returned"

\* C1: after a batch execution has returned a result, its workspace
\* directory temp/<executionId> no longer exists
C1_WorkspaceGoneAfterResult ==
  \A e \in Execs : HasReturned(e) => ~tempDir[e]

\* C2: at most one pull is started per image, however many concurrent
\* executions find the image absent
C2_SinglePullPerImage ==
  \A i \in Images : pulls[i] <= 1

ExecsOf(i) == {e \in Execs : pc[e] # "idle" /\ Config(e).image = i}
PullsPending(i) == Cardinality({e \in ExecsOf(i) : pc[e] = "pull"})
PullsFailed(i) == Cardinality({e \in ExecsOf(i) : error[e] = PullFailedMsg})
PullsSucceeded(i) == pulls[i] - PullsPending(i) - PullsFailed(i)

\* C3: the executions that found the same image absent share one outcome
\* of the image step: never does one of them pass it while another fails
\* on the pull
C3_SharedPullOutcome ==
  \A i \in Images : ~(PullsSucceeded(i) > 0 /\ PullsFailed(i) > 0)

TimeoutKind == "ExecutionTimeout"

\* C4: an execution whose program never exits eventually returns an error
\* result of kind ExecutionTimeout and its container is gone
C4_LoopingProgramTimesOut ==
  \A e \in Execs :
    (container[e] = Cont("looping")) ~>
      (/\ HasReturned(e)
       /\ result[e].status = "error"
       /\ result[e].errorKind = TimeoutKind
       /\ container[e].st = "removed")

\* the language identifiers that have a profile: the keys of the table
HasProfile(svc, language) == ToLower(language) \in DOMAIN ConfigTable(svc)

\* C5: a call whose language has no profile ends at once with the
\* unsupported-language error; it never has a workspace directory, never
\* waits for a pull and never has a container
C5_UnsupportedRejectedEarly ==
  service # "mock1" =>
    \A e \in Execs :
      (pc[e] # "idle" /\ ~HasProfile(service, lang[e])) =>
        /\ pc[e] = "done"
        /\ result[e] \in {Thrown(UnsupportedMsg),
                          Returned("error", MockUnsupportedMsg, 1)}
        /\ ~tempDir[e]
        /\ container[e] = Cont("none")
        /\ error[e] = "none"

\* C13: no container created by executeCode outlives the return of its
\* result: when the result is returned the container was never created,
\* or its program has ended (AutoRemove then removes it)
C13_ContainerRemovedAtReturn ==
  \A e \in Execs :
    HasReturned(e) => container[e].st \notin {"created", "running", "looping"}

\* C14: an execution that created its workspace and has returned has
\* called fs.rm on it exactly once
C14_WorkspaceRemovedOnce ==
  \A e \in Execs : (HasReturned(e) /\ steps[e].made) => steps[e].rm = 1

\* the program of the execution ended by itself
NaturalExit(e) == container[e].st \in {"exited", "removed"}

\* C15: when the program ended by itself with code c and neither the
\* daemon nor the file system failed, the result is exitCode c, status
\* success exactly for c = 0, and the output the program printed, whenever
\* AutoRemove removes the container
C15_NaturalExitResult ==
  \A e \in Execs :
    (/\ HasReturned(e)
     /\ NaturalExit(e)
     /\ error[e] \notin {DockerErrorMsg, FsErrorMsg}) =>
      result[e] = SuccessResult(e)

\* C16: when fs.rm fails after the exit code and the output were captured,
\* the result is still the captured exit code and output
C16_CleanupFailureKeepsResult ==
  \A e \in Execs :
    (HasReturned(e) /\ NaturalExit(e) /\ error[e] = FsErrorMsg) =>
      result[e] = SuccessResult(e)

\* the result of e reports a failure of the platform: an error was caught
\* and the program never ended by itself
PlatformFailure(e) ==
  HasReturned(e) /\ error[e] # "none" /\ ~NaturalExit(e)

\* the result of e reports a program that ran and ended with a non-zero code
ProgramFailure(e) ==
  /\ HasReturned(e)
  /\ error[e] = "none"
  /\ NaturalExit(e)
  /\ ExitCodeOf(container[e]) # 0

\* C17: the result of a platform failure never equals the result of a
\* program that ended with a non-zero code (the executionId apart)
C17_PlatformFailureDistinct ==
  \A e, f \in Execs :
    (PlatformFailure(e) /\ ProgramFailure(f)) => result[e] # result[f]

\* C18: an execution calls fs.mkdir, createContainer and start at most
\* once each, and the executions of an image start no more pulls of it
\* than there are of them; once an error is caught the execution only
\* runs its catch block and returns the error result
C18_NoRetry ==
  /\ \A i \in Images :
       pulls[i] > 0 => pulls[i] <= Cardinality(ExecsOf(i))
  /\ \A e \in Execs :
    /\ steps[e].mkdir <= 1
    /\ steps[e].create <= 1
    /\ steps[e].start <= 1
    /\ error[e] # "none" => pc[e] \in {"catch", "done"}
    /\ (pc[e] = "done" /\ error[e] # "none") =>
         result[e] = Returned("error", error[e], 1)

\* an execution whose container.start() failed after one pull, one create
\* and one start, and that has returned the error
C18_Witness ==
  \E e \in Execs :
    /\ pc[e] = "done"
    /\ error[e] = DockerErrorMsg
    /\ container[e] = Cont("created")
    /\ pulls[Config(e).image] = 1
    /\ steps[e] = [mkdir |-> 1, create |-> 1, start |-> 1, rm |-> 1,
                   made |-> TRUE]

\* C20: every container of a batch execution has no network, is removed
\* automatically, and has a read-only root file system exactly when its
\* language is not compiled next to the source
C20_ContainerPolicy ==
  \A e \in Execs :
    container[e].st # "none" =>
      /\ HostConfig(service, lang[e]).NetworkMode = "none"
      /\ HostConfig(service, lang[e]).AutoRemove
      /\ HostConfig(service, lang[e]).ReadonlyRootfs <=>
           (ToLower(lang[e]) \notin CompiledLanguages)

\* the admission limit of the specification: the largest number of
\* environments that may exist together
AdmissionLimit == 1

\* the containers of batch executions and of terminal sessions that exist
BatchEnvironments ==
  {e \in Execs : container[e].st \in {"created", "running", "looping",
                                       "exited"}}
TermEnvironments ==
  {s \in Sessions : tcontainer[s].st \in {"created", "running"}}

\* C21: the containers that exist at the same time, batch and terminal
\* together, never outnumber the admission limit
C21_AdmissionLimit ==
  Cardinality(BatchEnvironments) + Cardinality(TermEnvironments)
    <= AdmissionLimit

SimulatedKind == "SimulatedExecution"

\* C22: every result the mock executeCode returns is tagged as simulated
\* and reports no exit code
C22_MockResultsTagged ==
  \A e \in Execs :
    (service \in {"mock", "mock1"} /\ HasReturned(e)) =>
      /\ result[e].errorKind = SimulatedKind
      /\ result[e].exitCode = -1

\* the programs of e and f took the same input and behaved identically:
\* same language, same input, same exit code, and the same output as far
\* as it was read
SameRun(e, f) ==
  /\ lang[e] = lang[f] /\ hasInput[e] = hasInput[f]
  /\ NaturalExit(e) /\ NaturalExit(f)
  /\ ExitCodeOf(container[e]) = ExitCodeOf(container[f])
  /\ \/ container[e].out = container[f].out
     \/ "none" \in {container[e].out, container[f].out}

\* C23: two executions whose programs behaved identically, with no failure
\* of the daemon or of the file system, return the same output and exit
\* code whatever the timing of the auto-removal and of the log capture
C23_Deterministic ==
  \A e, f \in Execs :
    (/\ HasReturned(e) /\ HasReturned(f)
     /\ SameRun(e, f)
     /\ error[e] \notin {DockerErrorMsg, FsErrorMsg}
     /\ error[f] \notin {DockerErrorMsg, FsErrorMsg}) =>
      /\ result[e].output = result[f].output
      /\ result[e].exitCode = result[f].exitCode

\* C28: every returned result has status success exactly when its exit
\* code is 0
C28_StatusMatchesExitCode ==
  \A e \in Execs :
    HasReturned(e) => (result[e].status = "success" <=> result[e].exitCode = 0)

\* results of all three kinds: a program that ended with code 1, and a
\* caught daemon error
C28_Witness ==
  \E e, f \in Execs :
    /\ ProgramFailure(e) /\ result[e].exitCode = 1
    /\ PlatformFailure(f) /\ result[f].status = "error"

\* C29: a Docker-backed call for a language with a profile never rejects:
\* when it is done it has returned a result record, the error result when
\* a step failed
C29_NeverRejects ==
  \A e \in Execs :
    (IsDocker /\ pc[e] = "done" /\ HasProfile(service, lang[e])) =>
      /\ result[e].kind = "returned"
      /\ error[e] # "none" => result[e] = Returned("error", error[e], 1)

\* a call whose fs.rm failed in the try and again in the catch, and that
\* returned the error result
C29_Witness ==
  \E e \in Execs :
    /\ IsDocker /\ pc[e] = "done"
    /\ error[e] = FsErrorMsg /\ NaturalExit(e) /\ tempDir[e]
    /\ result[e] = Returned("error", FsErrorMsg, 1)

\* ------------------------------------------------------------------------
\* Claims about the language table and the terminal sessions
\* ------------------------------------------------------------------------
\* a language identifier the language table of docker-service.js knows
KnownLanguage(language) == ToLower(language) \in DOMAIN languageConfigs

\* a language identifier the image map of the terminal service knows
KnownTermLanguage(language) == ToLower(language) \in DOMAIN imageMap

\* C6: no consumer of the language table answers an unknown language with
\* a default: terminal_create creates no container for it, and no
\* executeCode returns a successful result for it
C6_UnknownLanguageFailsFast ==
  /\ \A s \in Sessions :
       (tpc[s] # "none" /\ ~KnownTermLanguage(tlang[s])) =>
         tcontainer[s].st = "none"
  /\ \A e \in Execs :
       (pc[e] = "done" /\ ~KnownLanguage(lang[e])) =>
         result[e].status # "success"

\* the session has been created and then closed: the Docker-backed service
\* has deleted its record, the mock has cleared its active flag or deleted it
Closed(s) ==
  /\ Registered(s)
  /\ IF termService = "docker"
     THEN ~sessions[s].present
     ELSE ~sessions[s].present \/ ~sessions[s].active

Emitted(ev) == \E i \in DOMAIN emitted : emitted[i] = ev
EmittedType(type) == \E i \in DOMAIN emitted : emitted[i].type = type

\* C7: a close event for a registered session leads to a state where the
\* record has left activeSessions and the container no longer runs
C7_CloseEvictsSession ==
  \A s \in Sessions :
    (event = Ev("terminal_close", s) /\ sessions[s].present) ~>
      (~sessions[s].present /\ tcontainer[s].st # "running")

\* C8: an input event handled for a Closed session is answered with an
\* error event to the sender
C8_InputAfterCloseRejected ==
  \A s \in Sessions :
    (event = Ev("terminal_input", s) /\ Closed(s)) =>
      EmittedType("terminal_error")

\* C9: no step emits terminal_output for a session that is Closed
C9_NoOutputAfterClosed ==
  \A s \in Sessions : Closed(s) => ~Emitted(Ev("terminal_output", s))

\* C10: once the socket of a session has disconnected and the close
\* operations it started have finished, the session's record has left
\* activeSessions and its container no longer runs
C10_DisconnectClosesSessions ==
  \A s \in Sessions :
    (/\ Registered(s)
     /\ ~connected[owner[s]]
     /\ closing[s] = 0
     /\ evictTimers[s] = 0) =>
      (~sessions[s].present /\ tcontainer[s].st # "running")

\* C11: the step that handles an input event of a session and writes it to
\* the container's stdin is never taken while a container.resize() call of
\* the same session is in flight
C11_NoInputDuringResize ==
  \A s \in Sessions :
    (/\ termService = "docker"
     /\ event = Ev("terminal_input", s)
     /\ sessions[s].present) =>
      resizing[s] = 0

\* the entries of q are in the order in which their events arrived
InArrivalOrder(q) ==
  \A i, j \in DOMAIN q : i < j => q[i][1] < q[j][1]

\* C12: within a session the inputs are written to the container's stdin
\* (pushed to the history in the mock) in the order they arrived, and the
\* mock emits the outputs of successive inputs in the order of the inputs:
\* an output is never followed by the output of an earlier input. The
\* chunks of a container are emitted by the data listener in the step in
\* which the stream delivers each of them (TermStreamData)
C12_OrderPreserved ==
  /\ [](\A s \in Sessions :
         /\ InArrivalOrder(stdin[s])
         /\ InArrivalOrder(sessions[s].history))
  /\ [][\A s \in Sessions : lastOutput[s][1] <= lastOutput'[s][1]]_vars

SessionEvents == {"terminal_input", "terminal_resize", "terminal_close"}

\* C19: a terminal_create whose createContainer, start or attach failed
\* emits terminal_error in the failing step, stays failed, never emits
\* terminal_created, has no record in activeSessions, and no input, resize
\* or close event is ever handled for its session id
C19_CreateFailureLeavesNoSession ==
  /\ [](\A s \in Sessions :
         /\ tpc[s] = "failed" =>
              /\ ~sessions[s].present
              /\ ~Emitted(Ev("terminal_created", s))
         /\ (event.type \in SessionEvents /\ event.id = s) =>
              tpc[s] = "active")
  /\ [][\A s \in Sessions :
         /\ (tpc[s] # "failed" /\ tpc'[s] = "failed") =>
              emitted' = <<Ev("terminal_error", 0)>>
         /\ tpc[s] = "failed" => tpc'[s] = "failed"]_vars

\* a terminal_create whose attach failed after its container was started
C19_Witness ==
  \E s \in Sessions :
    /\ tpc[s] = "failed"
    /\ tcontainer[s].st = "running"
    /\ emitted = <<Ev("terminal_error", 0)>>

\* C26: an input, resize or close event handled for a session id that
\* activeSessions does not hold is answered with an error event
C26_UnknownSessionRejected ==
  (event.type \in SessionEvents /\ ~sessions[event.id].present) =>
    EmittedType("terminal_error")

\* C27: a Docker-backed session whose terminal_create succeeded has, as
\* long as its handlers are registered, exactly one container: the one its
\* terminal_create made from the image of its language; no later step has
\* made another
C27_OneContainerPerSession ==
  \A s \in Sessions :
    (termService = "docker" /\ Registered(s)) =>
      /\ tcontainer[s].made = 1
      /\ tcontainer[s].image = getImageForLanguage(tlang[s])
      /\ tcontainer[s].st # "none"

\* a registered session whose container took an input and whose resize
\* call has settled while the session is still in activeSessions
C27_Witness ==
  \E s \in Sessions :
    /\ termService = "docker"
    /\ sessions[s].present
    /\ tcontainer[s].made = 1
    /\ stdin[s] # <<>>
    /\ resizing[s] = 0
    /\ Emitted(Ev("terminal_output", s))

\* a close of the session has been received and has not finished
Closing(s) == closing[s] > 0 \/ evictTimers[s] > 0

\* C30: while a session is closing no input is written to the stdin of its
\* container (pushed to its history in the mock)
C30_NoInputWhileClosing ==
  [][\A s \in Sessions :
       Closing(s) =>
         /\ Len(stdin'[s]) <= Len(stdin[s])
         /\ Len(sessions'[s].history) <= Len(sessions[s].history)]_vars

\* C24: a client that has joined the room of an executionId handed out by
\* POST /api/execute receives the execution_result event
C24_JoinedClientReceivesResult ==
  \A e \in Execs : room[e] ~> delivered[e]

\* the class name the specification gives a java source: the identifier
\* that follows the first `public class`
HasPublicClass(src) == \E i \in DOMAIN src : MatchesAt(src, i)
FirstPublicClass(src) ==
  CHOOSE i \in DOMAIN src :
    MatchesAt(src, i) /\ \A j \in 1..(i - 1) : ~MatchesAt(src, j)

\* C25: the source of a language with a profile is written under the
\* static name of the language,
\* except java: <C>.java with C the identifier following `public class`,
\* Main.java when the source has no public class
C25_SourceFileName ==
  (filename # "none" /\ HasProfile(service, sourceLang)) =>
    IF ToLower(sourceLang) = "java"
    THEN IF HasPublicClass(source)
         THEN filename =
                WordPrefix(source[FirstPublicClass(source) + 2]) \o ".java"
         ELSE filename = "Main.java"
    ELSE filename = ConfigTable(service)[ToLower(sourceLang)].filename

\* a java source, the language written in mixed case, whose public class
\* does not open the text
C25_Witness ==
  /\ sourceLang = "Java"
  /\ source = <<"{", "public", "class", "Foo{">>
  /\ filename = "Foo.java"

\* C31: container.stop() is called at most once for a session, and once
\* the record of a session has left activeSessions it is not there again
C31_StopAtMostOnce ==
  [][\A s \in Sessions :
       /\ closing'[s] > closing[s] => ~tcontainer[s].stopCalled
       /\ (Registered(s) /\ ~sessions[s].present) => ~sessions'[s].present
    ]_vars

\* C32: a Docker-backed session whose container has ended on its own
\* eventually leaves activeSessions
C32_ExitedContainerEvicted ==
  \A s \in Sessions :
    (/\ termService = "docker"
     /\ sessions[s].present
     /\ tcontainer[s].st = "stopped") ~> ~sessions[s].present

\* C33: no container is left created or running by a terminal_create that
\* failed
C33_NoOrphanContainer ==
  \A s \in Sessions :
    tpc[s] = "failed" => tcontainer[s].st \notin {"created", "running"}

\* terminal_created of session s comes before position i of the events q
\* of one step
CreatedBefore(q, i, s) ==
  \E j \in 1..(i - 1) : q[j] = Ev("terminal_created", s)

\* C34: terminal_created of a session is emitted before any terminal_output
\* of the session: the step that registers the session emits it, and a
\* terminal_output is emitted only for a session registered by an earlier
\* step or after terminal_created in the same step
C34_CreatedBeforeOutput ==
  [][\A s \in Sessions :
       /\ (~Registered(s) /\ Registered(s)') =>
            \E i \in DOMAIN emitted' : emitted'[i] = Ev("terminal_created", s)
       /\ \A i \in DOMAIN emitted' :
            emitted'[i] = Ev("terminal_output", s) =>
              Registered(s) \/ CreatedBefore(emitted', i, s)
    ]_vars

\* a Docker-backed session whose stream has just delivered a chunk
C34_Witness ==
  \E s \in Sessions :
    /\ termService = "docker"
    /\ Registered(s)
    /\ tcontainer[s].st = "running"
    /\ emitted = <<Ev("terminal_output", s)>>

\* C35: the name under which a java source is written is the name the
\* run command of the container compiles
C35_WrittenFileIsCompiled ==
  (/\ IsDocker
   /\ filename # "none"
   /\ ToLower(sourceLang) = "java") =>
     filename = RunFile(service, sourceLang)

\* the registerUser calls for an email that returned {user, token}
SuccessfulRegistrations(em) ==
  {c \in Calls : reg[c].email = em /\ reg[c].outcome = "success"}

\* every call made on the users collection is a registerUser
OnlyRegisterUser ==
  \A c \in Calls : reg[c].op \in {"none", "registerUser"}

\* C36: after registerUser calls alone the users collection holds at most
\* one user per email, and at most one registerUser call for an email
\* succeeds
C36_OneUserPerEmail ==
  OnlyRegisterUser =>
    \A em \in Emails :
      /\ Len(usersColl[em]) <= 1
      /\ Cardinality(SuccessfulRegistrations(em)) <= 1

\* every call made on the snippets collection is a saveCodeSnippet
OnlySaveCodeSnippet ==
  \A c \in Calls : snip[c].op \in {"none", "saveCodeSnippet"}

\* C37: after saveCodeSnippet calls alone the code-snippets collection
\* holds at most one snippet per (userId, language)
C37_OneSnippetPerKey ==
  OnlySaveCodeSnippet =>
    \A k \in SnippetKeys : snippetsColl[k] <= 1

====
